---- MODULE Spec2Model ----
(***************************************************************************)
(* Deployment tooling of curve-core: the per-chain YAML deployment         *)
(* manifest (scripts/deploy/deployment_file.py), the cross-chain           *)
(* governance deployment flow (scripts/deploy/governance/xgov.py) and the  *)
(* pool-info report (get_pool_info_stableswap.py).                         *)
(*                                                                         *)
(* Python values are tagged records, so that values of different Python    *)
(* types can be compared: None, int, bool, str, dict and pydantic model    *)
(* instances.  A YAML file is a tree of scalar and mapping nodes; a scalar *)
(* node carries its text and its style (plain or quoted).                  *)
(***************************************************************************)
EXTENDS Integers, Sequences, FiniteSets, TLC

VARIABLES
    file,          \* the manifest file: [exists |-> FALSE] or [exists, doc]
    op,            \* the last manifest operation: its name, arguments, outcome and the file before it
    nops,          \* number of manifest operations performed
    run,           \* concurrent deployment runs: per run its program counter, update and loaded document
    xgov,          \* deploy_xgov: program counter, chain settings, calls made, outcome
    pool           \* get_pool_info: inputs, loop index, pools_data, total_tvl, response

vars == <<file, op, nops, run, xgov, pool>>

\* ------------------------------------------------------------- bounds

\* manifest operations per behaviour
MaxOps == 1
\* longest key sequence handed to get_contract_deployment
MaxKeys == 5
\* longest list of pool addresses handed to get_pool_info
MaxPools == 2
\* largest raw virtual price a pool reports
MaxPrice == 2
\* number of distinct deployed-contract addresses the framework hands out
MaxAddr == 2

\* ------------------------------------------------------------- Python values

Null == [t |-> "null"]
IntV(i) == [t |-> "int", i |-> i]
BoolV(b) == [t |-> "bool", b |-> b]
StrV(s) == [t |-> "str", s |-> s]
MapV(m) == [t |-> "map", m |-> m]
ModelV(cls, f) == [t |-> "model", cls |-> cls, f |-> f]
\* the outcome of a validation that raised ValidationError
Invalid == [t |-> "invalid"]

EmptyDict == [k \in {} |-> Null]

IsNull(v) == v.t = "null"
IsMap(v) == v.t = "map"

\* ------------------------------------------------------------- text

Char(s, i) == SubSeq(s, i, i)

DecDigits == {"0", "1", "2", "3", "4", "5", "6", "7", "8", "9"}
OctDigits == {"0", "1", "2", "3", "4", "5", "6", "7"}
HexDigits == DecDigits \cup {"a", "b", "c", "d", "e", "f", "A", "B", "C", "D", "E", "F"}

DigitChar == <<"0", "1", "2", "3", "4", "5", "6", "7", "8", "9">>

\* the value of a digit
DigitVal ==
    [c \in HexDigits |->
        IF c \in DecDigits THEN (CHOOSE i \in 1..10 : DigitChar[i] = c) - 1
        ELSE IF c \in {"a", "A"} THEN 10
        ELSE IF c \in {"b", "B"} THEN 11
        ELSE IF c \in {"c", "C"} THEN 12
        ELSE IF c \in {"d", "D"} THEN 13
        ELSE IF c \in {"e", "E"} THEN 14
        ELSE 15]

\* int(text[from..], base)
RECURSIVE ParseFrom(_, _, _, _)
ParseFrom(s, from, base, acc) ==
    IF from > Len(s) THEN acc
    ELSE ParseFrom(s, from + 1, base, acc * base + DigitVal[Char(s, from)])

\* str(n) for n >= 0
RECURSIVE IntToStr(_)
IntToStr(n) ==
    IF n < 10 THEN DigitChar[n + 1]
    ELSE IntToStr(n \div 10) \o DigitChar[(n % 10) + 1]

IsDecimal(s) ==
    /\ Len(s) >= 1
    /\ \A i \in 1..Len(s) : Char(s, i) \in DecDigits
    /\ (Len(s) = 1 \/ Char(s, 1) # "0")

IsOctal(s) ==
    /\ Len(s) >= 2
    /\ Char(s, 1) = "0"
    /\ \A i \in 2..Len(s) : Char(s, i) \in OctDigits

IsHex(s) ==
    /\ Len(s) >= 3
    /\ SubSeq(s, 1, 2) = "0x"
    /\ \A i \in 3..Len(s) : Char(s, i) \in HexDigits

\* ------------------------------------------------------------- YAML

\* a YAML document: scalar nodes (text and style) and mapping nodes
Scalar(style, text) == [y |-> "scalar", style |-> style, text |-> text]
YMap(m) == [y |-> "mapping", m |-> m]

YamlNullWords == {"", "~", "null", "Null", "NULL"}
YamlTrueWords == {"yes", "Yes", "YES", "true", "True", "TRUE", "on", "On", "ON"}
YamlFalseWords == {"no", "No", "NO", "false", "False", "FALSE", "off", "Off", "OFF"}

\* the tag the YAML implicit resolver gives a plain scalar; the resolver looks
\* only at the patterns registered for the scalar's first character (signs,
\* floats and timestamps are not used by the documents of this model)
ImplicitTag(s) ==
    IF s = "" THEN "null"
    ELSE LET first == Char(s, 1) IN
         IF first \in {"~", "n", "N"} /\ s \in YamlNullWords THEN "null"
         ELSE IF first \in {"y", "Y", "n", "N", "t", "T", "f", "F", "o", "O"} /\ s \in YamlTrueWords \cup YamlFalseWords
         THEN "bool"
         ELSE IF first \in DecDigits /\ (IsDecimal(s) \/ IsOctal(s) \/ IsHex(s))
         THEN "int"
         ELSE "str"

PlainInt(s) ==
    IF IsHex(s) THEN ParseFrom(s, 3, 16, 0)
    ELSE IF IsOctal(s) THEN ParseFrom(s, 2, 8, 0)
    ELSE ParseFrom(s, 1, 10, 0)

represent_str_always_plain(s) == Scalar("plain", s)

\* a str is written plain only when a plain scalar of that text reads back as a str
represent_str(s) ==
    IF ImplicitTag(s) = "str" THEN Scalar("plain", s) ELSE Scalar("quoted", s)

\* yaml.safe_dump of a Python value built of None, bool, int, str and dict
RECURSIVE safe_dump(_)
safe_dump(v) ==
    CASE v.t = "null" -> Scalar("plain", "null")
      [] v.t = "bool" -> Scalar("plain", IF v.b THEN "true" ELSE "false")
      [] v.t = "int" -> Scalar("plain", IntToStr(v.i))
      [] v.t = "str" -> represent_str(v.s)
      [] v.t = "map" -> YMap([k \in DOMAIN v.m |-> safe_dump(v.m[k])])

\* the Python value of a plain scalar
construct_plain(text) ==
    LET tag == ImplicitTag(text) IN
    CASE tag = "null" -> Null
      [] tag = "bool" -> BoolV(text \in YamlTrueWords)
      [] tag = "int" -> IntV(PlainInt(text))
      [] OTHER -> StrV(text)

\* yaml.safe_load
RECURSIVE safe_load(_)
safe_load(n) ==
    IF n.y = "mapping" THEN MapV([k \in DOMAIN n.m |-> safe_load(n.m[k])])
    ELSE IF n.style = "quoted" THEN StrV(n.text)
    ELSE construct_plain(n.text)

\* ------------------------------------------------------------- schema

\* a field: its name, its type, whether the key must be present, whether None is accepted
Fld(n, ty, req, nul) == [n |-> n, ty |-> ty, req |-> req, nul |-> nul]
\* "x: T"
Required(n, ty) == Fld(n, ty, TRUE, FALSE)
\* "x: T | None"
RequiredNullable(n, ty) == Fld(n, ty, TRUE, TRUE)
\* "x: T | None = None"
Optional(n, ty) == Fld(n, ty, FALSE, TRUE)

\* settings.config.RollupType
RollupType == {"op_stack", "arb_orbit", "polygon_cdk", "zksync", "not_rollup"}

DeploymentType == {"normal", "blueprint"}

DaoSettings == {
    Optional("crv", "str"), Optional("crvusd", "str"),
    Optional("emergency_admin", "str"), Optional("ownership_admin", "str"),
    Optional("parameter_admin", "str"), Optional("vault", "str")}

ChainParameters == {
    Required("network_name", "str"), Required("chain_id", "int"),
    Required("layer", "int"), Required("rollup_type", "RollupType"),
    Optional("dao", "DaoSettings"), Required("explorer_base_url", "str"),
    Required("native_currency_coingecko_id", "str"),
    Required("native_currency_symbol", "str"),
    Required("platform_coingecko_id", "str"),
    Required("public_rpc_url", "str"), Required("wrapped_native_token", "str")}

CompilerSettings == {
    Required("compiler_version", "str"), RequiredNullable("evm_version", "str"),
    Required("optimisation_level", "str")}

Contract == {
    Required("address", "str"), Required("compiler_settings", "CompilerSettings"),
    RequiredNullable("constructor_args_encoded", "str"),
    Required("contract_github_url", "str"), Required("contract_path", "str"),
    Required("contract_version", "str"), Required("deployment_timestamp", "int"),
    Required("deployment_type", "DeploymentType")}

SingleAmmDeployment == {
    Optional("factory", "Contract"), Optional("implementation", "Contract"),
    Optional("math", "Contract"), Optional("views", "Contract")}

StableswapSingleAmmDeployment ==
    SingleAmmDeployment \cup {Optional("meta_implementation", "Contract")}

AmmDeployment == {
    Optional("stableswap", "StableswapSingleAmmDeployment"),
    Optional("tricryptoswap", "SingleAmmDeployment"),
    Optional("twocryptoswap", "SingleAmmDeployment")}

GaugeFactoryDeployment == {
    Optional("factory", "Contract"), Optional("implementation", "Contract")}

GaugeDeployment == {Required("child_gauge", "GaugeFactoryDeployment")}

GovernanceDeployment == {
    Optional("agent", "Contract"), Optional("relayer", "dict[str,Contract]"),
    Optional("vault", "Contract")}

HelpersDeployment == {
    Optional("deposit_and_stake_zap", "Contract"), Optional("rate_provider", "Contract"),
    Optional("router", "Contract"), Optional("stable_swap_meta_zap", "Contract")}

MetaregistryHandlers == {
    Optional("stableswap", "Contract"), Optional("tricryptoswap", "Contract"),
    Optional("twocryptoswap", "Contract")}

MetaregistyContract ==
    Contract \cup {Optional("registry_handlers", "MetaregistryHandlers")}

RegistriesDeployment == {
    Optional("address_provider", "Contract"),
    Optional("metaregistry", "MetaregistyContract")}

ContractsDeployment == {
    Optional("amm", "AmmDeployment"), Optional("gauge", "GaugeDeployment"),
    Optional("governance", "GovernanceDeployment"),
    Optional("helpers", "HelpersDeployment"),
    Optional("registries", "RegistriesDeployment")}

DeploymentConfig == {
    Required("config", "ChainParameters"), Optional("contracts", "ContractsDeployment")}

ModelClasses == {
    "DaoSettings", "ChainParameters", "CompilerSettings", "Contract",
    "SingleAmmDeployment", "StableswapSingleAmmDeployment", "AmmDeployment",
    "GaugeFactoryDeployment", "GaugeDeployment", "GovernanceDeployment",
    "HelpersDeployment", "MetaregistryHandlers", "MetaregistyContract",
    "RegistriesDeployment", "ContractsDeployment", "DeploymentConfig"}

Fields(cls) ==
    CASE cls = "DaoSettings" -> DaoSettings
      [] cls = "ChainParameters" -> ChainParameters
      [] cls = "CompilerSettings" -> CompilerSettings
      [] cls = "Contract" -> Contract
      [] cls = "SingleAmmDeployment" -> SingleAmmDeployment
      [] cls = "StableswapSingleAmmDeployment" -> StableswapSingleAmmDeployment
      [] cls = "AmmDeployment" -> AmmDeployment
      [] cls = "GaugeFactoryDeployment" -> GaugeFactoryDeployment
      [] cls = "GaugeDeployment" -> GaugeDeployment
      [] cls = "GovernanceDeployment" -> GovernanceDeployment
      [] cls = "HelpersDeployment" -> HelpersDeployment
      [] cls = "MetaregistryHandlers" -> MetaregistryHandlers
      [] cls = "MetaregistyContract" -> MetaregistyContract
      [] cls = "RegistriesDeployment" -> RegistriesDeployment
      [] cls = "ContractsDeployment" -> ContractsDeployment
      [] cls = "DeploymentConfig" -> DeploymentConfig

FieldNames(cls) == {fd.n : fd \in Fields(cls)}

FieldOf(cls, n) == CHOOSE fd \in Fields(cls) : fd.n = n

\* ------------------------------------------------------------- pydantic

AllDecimal(s) == Len(s) >= 1 /\ \A i \in 1..Len(s) : Char(s, i) \in DecDigits

\* validation of a non-None input against a field type (lax mode: an int field
\* takes a bool or a string of digits; a str field takes only a str; keys of a
\* model that are not fields are ignored)
RECURSIVE validate(_, _)
validate(ty, v) ==
    CASE ty = "str" -> IF v.t = "str" THEN v ELSE Invalid
      [] ty = "int" ->
            IF v.t = "int" THEN v
            ELSE IF v.t = "bool" THEN IntV(IF v.b THEN 1 ELSE 0)
            ELSE IF v.t = "str" /\ AllDecimal(v.s) THEN IntV(ParseFrom(v.s, 1, 10, 0))
            ELSE Invalid
      [] ty = "RollupType" -> IF v.t = "str" /\ v.s \in RollupType THEN v ELSE Invalid
      [] ty = "DeploymentType" -> IF v.t = "str" /\ v.s \in DeploymentType THEN v ELSE Invalid
      [] ty = "dict[str,Contract]" ->
            IF v.t # "map" THEN Invalid
            ELSE LET items == [k \in DOMAIN v.m |->
                                 IF IsNull(v.m[k]) THEN Invalid ELSE validate("Contract", v.m[k])]
                 IN IF \E k \in DOMAIN items : items[k] = Invalid THEN Invalid ELSE MapV(items)
      [] OTHER ->
            IF v.t # "map" THEN Invalid
            ELSE LET f == [n \in FieldNames(ty) |->
                             LET fd == FieldOf(ty, n) IN
                             IF n \notin DOMAIN v.m THEN (IF fd.req THEN Invalid ELSE Null)
                             ELSE IF IsNull(v.m[n]) THEN (IF fd.nul THEN Null ELSE Invalid)
                             ELSE validate(fd.ty, v.m[n])]
                 IN IF \E n \in DOMAIN f : f[n] = Invalid THEN Invalid ELSE ModelV(ty, f)

\* DeploymentConfig.model_validate
model_validate(v) == validate("DeploymentConfig", v)

\* BaseModel.model_dump: every field of the model, nested models as dicts
RECURSIVE model_dump(_)
model_dump(v) ==
    CASE v.t = "model" -> MapV([n \in DOMAIN v.f |-> model_dump(v.f[n])])
      [] v.t = "map" -> MapV([k \in DOMAIN v.m |-> model_dump(v.m[k])])
      [] OTHER -> v

\* dict.update
shallow_update(mapping, updating) ==
    [k \in DOMAIN mapping \cup DOMAIN updating |->
        IF k \in DOMAIN updating THEN updating[k] ELSE mapping[k]]

\* pydantic.v1.utils.deep_update on two dicts
RECURSIVE deep_update(_, _)
deep_update(mapping, updating) ==
    [k \in DOMAIN mapping \cup DOMAIN updating |->
        IF k \notin DOMAIN updating THEN mapping[k]
        ELSE IF k \in DOMAIN mapping /\ IsMap(mapping[k]) /\ IsMap(updating[k])
        THEN MapV(deep_update(mapping[k].m, updating[k].m))
        ELSE updating[k]]

\* ------------------------------------------------------------- outcomes

Return(v) == [kind |-> "return", v |-> v]
\* no outcome yet
Pending == [kind |-> "pending"]
Raise(exc, msg) == [kind |-> "raise", exc |-> exc, msg |-> msg]

Absent == [exists |-> FALSE]
Present(doc) == [exists |-> TRUE, doc |-> doc]

\* ------------------------------------------------------------- YamlDeploymentFile

\* None when the file is absent, Invalid when validation raises, else the model
get_deployment_config(f) ==
    IF ~f.exists THEN Null ELSE model_validate(safe_load(f.doc))

HasAttr(cur, key) == cur.t = "model" /\ key \in DOMAIN cur.f

\* the loop without its branch for dict-typed fields
RECURSIVE walk_by_attribute_only(_, _)
walk_by_attribute_only(current_level, config_keys) ==
    IF config_keys = <<>> THEN Return(current_level)
    ELSE LET key == Head(config_keys) IN
         IF ~HasAttr(current_level, key) THEN Raise("AttributeError", key)
         ELSE IF ~IsNull(current_level.f[key])
              THEN walk_by_attribute_only(current_level.f[key], Tail(config_keys))
              ELSE Return(Null)

\* the loop of get_contract_deployment
RECURSIVE walk(_, _)
walk(current_level, config_keys) ==
    IF config_keys = <<>> THEN Return(current_level)
    ELSE LET key == Head(config_keys) IN
         IF current_level.t = "map"
         THEN IF key \in DOMAIN current_level.m
              THEN walk(current_level.m[key], Tail(config_keys))
              ELSE Return(Null)
         ELSE IF ~HasAttr(current_level, key) THEN Raise("AttributeError", key)
         ELSE IF ~IsNull(current_level.f[key])
              THEN walk(current_level.f[key], Tail(config_keys))
              ELSE Return(Null)

get_contract_deployment(f, config_keys) ==
    LET current_level == get_deployment_config(f) IN
    IF current_level = Invalid THEN Raise("ValidationError", "")
    ELSE IF IsNull(current_level) THEN Return(Null)
    ELSE walk(current_level, config_keys)

\* the file after save_deployment_config(deployment)
save_deployment_config(deployment) == Present(safe_dump(model_dump(deployment)))

\* update_deployment_config(data): the outcome and the file after it
update_deployment_config_unvalidated(f, data) ==
    LET deployment_config == get_deployment_config(f)
        updated_deployment_config ==
            IF ~IsNull(deployment_config)
            THEN MapV(deep_update(model_dump(deployment_config).m, data.m))
            ELSE data
    IN  IF deployment_config = Invalid
        THEN [out |-> Raise("ValidationError", ""), file |-> f]
        ELSE [out |-> Return(Null), file |-> Present(safe_dump(updated_deployment_config))]

update_deployment_config_write_first(f, data) ==
    LET deployment_config == get_deployment_config(f)
        updated_deployment_config ==
            IF ~IsNull(deployment_config)
            THEN MapV(deep_update(model_dump(deployment_config).m, data.m))
            ELSE data
    IN  IF deployment_config = Invalid
        THEN [out |-> Raise("ValidationError", ""), file |-> f]
        ELSE IF model_validate(updated_deployment_config) = Invalid
        THEN [out |-> Raise("ValidationError", ""),
              file |-> Present(safe_dump(updated_deployment_config))]
        ELSE [out |-> Return(Null), file |-> Present(safe_dump(updated_deployment_config))]

\* update_deployment_config from the load on, reading the file again
update_deployment_config_reloading(deployment_config, f, data) ==
    LET reloaded == get_deployment_config(f)
        updated_deployment_config ==
            IF ~IsNull(reloaded)
            THEN MapV(deep_update(model_dump(reloaded).m, data.m))
            ELSE data
    IN  IF model_validate(updated_deployment_config) = Invalid
        THEN [out |-> Raise("ValidationError", ""), file |-> f]
        ELSE [out |-> Return(Null), file |-> Present(safe_dump(updated_deployment_config))]

\* update_deployment_config from the load on: deployment_config is what
\* get_deployment_config returned, f the file when the document is written
update_deployment_config_loaded(deployment_config, f, data) ==
    LET updated_deployment_config ==
            IF ~IsNull(deployment_config)
            THEN MapV(deep_update(model_dump(deployment_config).m, data.m))
            ELSE data
    IN  IF model_validate(updated_deployment_config) = Invalid
        THEN [out |-> Raise("ValidationError", ""), file |-> f]
        ELSE [out |-> Return(Null), file |-> Present(safe_dump(updated_deployment_config))]

update_deployment_config(f, data) ==
    LET deployment_config == get_deployment_config(f) IN
    IF deployment_config = Invalid
    THEN [out |-> Raise("ValidationError", ""), file |-> f]
    ELSE update_deployment_config_loaded(deployment_config, f, data)

\* the dict d after ensure_nested_dict(d, keys); the dict it returns is the one at keys
RECURSIVE ensure_nested_dict(_, _)
ensure_nested_dict(d, keys) ==
    IF keys = <<>> THEN d
    ELSE LET key == Head(keys)
             child == IF key \notin DOMAIN d \/ IsNull(d[key]) THEN EmptyDict ELSE d[key].m
         IN  [k \in DOMAIN d \cup {key} |->
                IF k = key THEN MapV(ensure_nested_dict(child, Tail(keys))) ELSE d[k]]

\* d after "innermost.update(record)" on the dict at keys
RECURSIVE update_at(_, _, _)
update_at(d, keys, record) ==
    IF keys = <<>> THEN shallow_update(d, record)
    ELSE [k \in DOMAIN d |->
            IF k = Head(keys) THEN MapV(update_at(d[k].m, Tail(keys), record)) ELSE d[k]]

\* ------------------------------------------------------------- re.search

StartsAt(s, i, pre) ==
    /\ i + Len(pre) - 1 <= Len(s)
    /\ SubSeq(s, i, i + Len(pre) - 1) = pre

\* the index after the longest run of characters of the class from index i
RECURSIVE RunEnd(_, _, _)
RunEnd(s, i, class) ==
    IF i <= Len(s) /\ Char(s, i) \in class THEN RunEnd(s, i + 1, class) ELSE i

\* [\d.]
VersionChars == DecDigits \cup {"."}

\* re.search(pre + "([\d.]+)" + post, s): the places where it matches
Matches(pre, post, s) ==
    {i \in 1..Len(s) :
        /\ StartsAt(s, i, pre)
        /\ RunEnd(s, i + Len(pre), VersionChars) > i + Len(pre)
        /\ StartsAt(s, RunEnd(s, i + Len(pre), VersionChars), post)}

\* match.group(1) of the leftmost match
Group1(pre, post, s) ==
    LET found == Matches(pre, post, s)
        i == CHOOSE j \in found : \A k \in found : j <= k
    IN  SubSeq(s, i + Len(pre), RunEnd(s, i + Len(pre), VersionChars) - 1)

PragmaPattern == "# pragma version "
VersionPatternPre == "version: public(constant(String[8])) = \""
VersionPatternPost == "\""

\* str.strip() of blanks
RECURSIVE strip(_)
strip(s) ==
    IF Len(s) >= 1 /\ Char(s, 1) = " " THEN strip(SubSeq(s, 2, Len(s)))
    ELSE IF Len(s) >= 1 /\ Char(s, Len(s)) = " " THEN strip(SubSeq(s, 1, Len(s) - 1))
    ELSE s

\* "/".join(parts)
RECURSIVE join(_)
join(parts) ==
    IF parts = <<>> THEN ""
    ELSE IF Len(parts) = 1 THEN parts[1]
    ELSE parts[1] \o "/" \o join(Tail(parts))

\* parts[parts.index(x):], for x in parts
RECURSIVE from_part(_, _)
from_part(parts, x) == IF Head(parts) = x THEN parts ELSE from_part(Tail(parts), x)

InParts(parts, x) == \E i \in 1..Len(parts) : parts[i] = x

\* ------------------------------------------------------------- the recorder

\* scripts/deploy/utils.get_latest_commit_hash
get_latest_commit_hash(filename) == "c0ffee"

\* scripts/deploy/utils.get_relative_path: the path below the checkout's parent
get_relative_path(filename) == Tail(filename)

\* boa's abi_encode(signature, args).hex(), one byte per argument here
RECURSIVE abi_encode_hex(_)
abi_encode_hex(args) ==
    IF args = <<>> THEN "" ELSE "0" \o IntToStr(Head(args)) \o abi_encode_hex(Tail(args))

\* update_contract_deployment from the load on: deployment_config is what
\* get_deployment_config returned, f the file when the document is written
update_contract_deployment_loaded(deployment_config, f, contract_folder, contract_object, ctor_args, as_blueprint, now) ==
    LET source_code == contract_object.source_code
        contract_path_keys == from_part(contract_folder, "contracts")
        ensured == ensure_nested_dict(model_dump(deployment_config).m, contract_path_keys)
        encoded_args == IF ctor_args # <<>> THEN StrV(abi_encode_hex(ctor_args)) ELSE Null
        compiler_version == Group1(PragmaPattern, "", source_code)
        latest_git_commit_for_file == get_latest_commit_hash(contract_object.filename)
        contract_relative_path == get_relative_path(contract_object.filename)
        github_url == "https://github.com/curvefi/curve-lite/blob/"
                        \o latest_git_commit_for_file \o "/"
                        \o join(Tail(contract_relative_path))
        version == IF ~as_blueprint THEN strip(contract_object.version)
                   ELSE Group1(VersionPatternPre, VersionPatternPost, source_code)
        record ==
            ("deployment_type" :> StrV(IF ~as_blueprint THEN "normal" ELSE "blueprint"))
            @@ ("contract_version" :> StrV(version))
            @@ ("contract_path" :> StrV(join(contract_relative_path)))
            @@ ("contract_github_url" :> StrV(github_url))
            @@ ("address" :> StrV(strip(contract_object.address)))
            @@ ("deployment_timestamp" :> IntV(now))
            @@ ("constructor_args_encoded" :> encoded_args)
            @@ ("compiler_settings" :> MapV(
                    ("compiler_version" :> StrV(compiler_version))
                    @@ ("optimisation_level" :> StrV(contract_object.optimize))
                    @@ ("evm_version" :> contract_object.evm_version)))
        deployment_config_dict == MapV(update_at(ensured, contract_path_keys, record))
        validated == model_validate(deployment_config_dict)
    IN  IF IsNull(deployment_config)
        THEN [out |-> Raise("AttributeError", "model_dump"), file |-> f]
        ELSE IF ~InParts(contract_folder, "contracts")
        THEN [out |-> Raise("ValueError", "tuple.index(x): x not in tuple"), file |-> f]
        ELSE IF ctor_args # <<>> /\ ~contract_object.abi_has_constructor
        THEN [out |-> Raise("StopIteration", ""), file |-> f]
        ELSE IF Matches(PragmaPattern, "", source_code) = {}
        THEN [out |-> Raise("ValueError", "Compiler Version is set incorrectly"), file |-> f]
        ELSE IF as_blueprint /\ Matches(VersionPatternPre, VersionPatternPost, source_code) = {}
        THEN [out |-> Raise("ValueError", "Contract version is set incorrectly"), file |-> f]
        ELSE IF validated = Invalid
        THEN [out |-> Raise("ValidationError", ""), file |-> f]
        ELSE [out |-> Return(Null), file |-> save_deployment_config(validated)]

update_contract_deployment(f, contract_folder, contract_object, ctor_args, as_blueprint, now) ==
    LET deployment_config == get_deployment_config(f) IN
    IF deployment_config = Invalid
    THEN [out |-> Raise("ValidationError", ""), file |-> f]
    ELSE update_contract_deployment_loaded(deployment_config, f, contract_folder,
                                           contract_object, ctor_args, as_blueprint, now)

\* ------------------------------------------------------------- documents of the model

Address(i) == "0xA" \o IntToStr(i)
Addresses == {Address(i) : i \in 1..MaxAddr}

\* a contract record as update_contract_deployment writes it
ContractRecord(address, deployment_type) ==
    MapV(("address" :> StrV(address))
         @@ ("compiler_settings" :> MapV(
                ("compiler_version" :> StrV("0.3.10"))
                @@ ("evm_version" :> Null)
                @@ ("optimisation_level" :> StrV("gas"))))
         @@ ("constructor_args_encoded" :> Null)
         @@ ("contract_github_url" :>
                StrV("https://github.com/curvefi/curve-lite/blob/c0ffee/contracts/c.vy"))
         @@ ("contract_path" :> StrV("curve-core/contracts/c.vy"))
         @@ ("contract_version" :> StrV("1.0.0"))
         @@ ("deployment_timestamp" :> IntV(1700000000))
         @@ ("deployment_type" :> StrV(deployment_type)))

\* the chain parameters dump_initial_chain_settings writes (no dao yet)
BaseConfig(chain_id, symbol) ==
    ("network_name" :> StrV("optimism"))
    @@ ("chain_id" :> chain_id)
    @@ ("layer" :> IntV(2))
    @@ ("rollup_type" :> StrV("op_stack"))
    @@ ("explorer_base_url" :> StrV("https://optimistic.etherscan.io"))
    @@ ("native_currency_coingecko_id" :> StrV("ethereum"))
    @@ ("native_currency_symbol" :> StrV(symbol))
    @@ ("platform_coingecko_id" :> StrV("optimistic-ethereum"))
    @@ ("public_rpc_url" :> StrV("https://mainnet.optimism.io"))
    @@ ("wrapped_native_token" :> StrV(Address(1)))

At1(k, v) == MapV(k :> v)
At2(k1, k2, v) == At1(k1, At1(k2, v))
At3(k1, k2, k3, v) == At1(k1, At2(k2, k3, v))
At4(k1, k2, k3, k4, v) == At1(k1, At3(k2, k3, k4, v))

ConfigOnly == At1("config", MapV(BaseConfig(IntV(10), "ETH")))

Deployed ==
    MapV(("config" :> MapV(BaseConfig(IntV(10), "ON")
                           @@ ("dao" :> At1("vault", StrV(Address(1))))))
         @@ ("contracts" :> MapV(
                ("amm" :> At2("stableswap", "factory", ContractRecord(Address(1), "blueprint")))
                @@ ("governance" :> At2("relayer", "op_stack",
                                        ContractRecord(Address(2), "normal"))))))

\* the documents a run can find on disk when it starts: none, the one the
\* first update wrote, that one after an update giving the chain id as text,
\* and one written after deployments
InitFiles == {
    Absent,
    Present(safe_dump(ConfigOnly)),
    update_deployment_config(Present(safe_dump(ConfigOnly)),
                             At2("config", "chain_id", StrV("10"))).file,
    Present(safe_dump(model_dump(model_validate(Deployed))))}

\* the partial updates handed to update_deployment_config
Updates ==
    {At2("config", "chain_id", IntV(10)),
     At2("config", "chain_id", StrV("10")),
     At2("config", "chain_id", StrV("ten")),
     ConfigOnly,
     At1("contracts", Null),
     At1("contracts", MapV(EmptyDict)),
     At2("config", "dao", Null),
     At3("contracts", "gauge", "child_gauge", Null),
     At4("contracts", "amm", "stableswap", "factory", At1("address", IntV(5)))}
    \cup {At3("config", "dao", "vault", StrV(a)) : a \in Addresses}
    \cup {At4("contracts", "amm", "stableswap", "factory", At1("address", StrV(a))) :
            a \in Addresses}
    \cup {At4("contracts", "governance", "relayer", "polygon_cdk", ContractRecord(a, "normal")) :
            a \in Addresses}

\* the validated documents handed to save_deployment_config
SaveDocs ==
    {model_validate(ConfigOnly), model_validate(Deployed)}
    \cup {model_validate(MapV(ConfigOnly.m
                              @@ ("contracts" :> At2("helpers", "router", ContractRecord(a, "normal")))))
          : a \in Addresses}

\* the key sequences handed to get_contract_deployment
Probes == {
    <<"contracts", "amm", "stableswap", "factory", "address", "x">>,
    <<"contracts", "amm", "tricryptoswap", "meta_implementation">>,
    <<"contracts", "governance", "relayer", "op_stack", "address">>,
    <<"contracts", "governance", "relayer", "polygon_cdk", "address">>,
    <<"contracts", "helpers", "router">>,
    <<"contracts", "registry">>,
    <<"config", "dao", "vault">>,
    <<"config", "network_name", "x">>}

KeySequences ==
    UNION {{SubSeq(p, 1, n) : n \in {k \in 0..Len(p) : k <= MaxKeys}} : p \in Probes}


SourceOk == "# pragma version 0.3.10 version: public(constant(String[8])) = \"1.0.0\""
SourceOldPragma == "# @version 0.3.10 version: public(constant(String[8])) = \"1.0.0\""
SourceNoVersion == "# pragma version 0.3.10 "
Sources == {SourceOk, SourceOldPragma, SourceNoVersion}

ContractObject(address, source_code, abi_has_constructor) ==
    [address |-> " " \o address, source_code |-> source_code, version |-> "1.0.0 ",
     abi_has_constructor |-> abi_has_constructor, optimize |-> "gas", evm_version |-> Null,
     filename |-> <<"/", "curve-core", "contracts", "c.vy">>]

\* the contract handles the framework hands to the recorder
ContractObjects ==
    {ContractObject(Address(MaxAddr), src, TRUE) : src \in Sources}
    \cup {ContractObject(Address(1), SourceOk, FALSE)}

ContractFolders == {
    <<"/", "curve-core", "contracts", "amm", "stableswap", "factory">>,
    <<"/", "curve-core", "contracts", "governance", "relayer", "op_stack">>,
    <<"/", "curve-core", "scripts">>}

CtorArgs == {<<>>, <<7>>}

\* ------------------------------------------------------------- the manifest store as a state machine

Idle == [name |-> "idle"]

Done(name, arg, out) == [name |-> name, arg |-> arg, pre |-> file, out |-> out]

ManifestInit ==
    /\ file \in InitFiles
    /\ op = Idle
    /\ nops = 0
    /\ run = Idle
    /\ xgov = Idle
    /\ pool = Idle

GetDeploymentConfig ==
    /\ nops < MaxOps
    /\ LET got == get_deployment_config(file) IN
       op' = Done("get_deployment_config", Null,
                  IF got = Invalid THEN Raise("ValidationError", "") ELSE Return(got))
    /\ nops' = nops + 1
    /\ UNCHANGED <<file, run, xgov, pool>>

GetContractDeployment(config_keys) ==
    /\ nops < MaxOps
    /\ op' = Done("get_contract_deployment", config_keys,
                  get_contract_deployment(file, config_keys))
    /\ nops' = nops + 1
    /\ UNCHANGED <<file, run, xgov, pool>>

SaveDeploymentConfig(deployment) ==
    /\ nops < MaxOps
    /\ file' = save_deployment_config(deployment)
    /\ op' = Done("save_deployment_config", deployment, Return(Null))
    /\ nops' = nops + 1
    /\ UNCHANGED <<run, xgov, pool>>

\* load, then save what was loaded, with no change in between
LoadThenSave ==
    /\ nops < MaxOps
    /\ file.exists
    /\ LET deployment == get_deployment_config(file) IN
       /\ deployment # Invalid
       /\ file' = save_deployment_config(deployment)
       /\ op' = Done("load_then_save", deployment, Return(Null))
    /\ nops' = nops + 1
    /\ UNCHANGED <<run, xgov, pool>>

UpdateDeploymentConfig(data) ==
    /\ nops < MaxOps
    /\ LET r == update_deployment_config(file, data) IN
       /\ file' = r.file
       /\ op' = Done("update_deployment_config", data, r.out)
    /\ nops' = nops + 1
    /\ UNCHANGED <<run, xgov, pool>>

UpdateContractDeployment(contract_folder, contract_object, ctor_args, as_blueprint) ==
    /\ nops < MaxOps
    /\ LET r == update_contract_deployment(file, contract_folder, contract_object,
                                           ctor_args, as_blueprint, 1700000001) IN
       /\ file' = r.file
       /\ op' = Done("update_contract_deployment",
                     [contract_folder |-> contract_folder, contract_object |-> contract_object,
                      ctor_args |-> ctor_args, as_blueprint |-> as_blueprint],
                     r.out)
    /\ nops' = nops + 1
    /\ UNCHANGED <<run, xgov, pool>>

ManifestNext ==
    \/ GetDeploymentConfig
    \/ \E config_keys \in KeySequences : GetContractDeployment(config_keys)
    \/ \E deployment \in SaveDocs : SaveDeploymentConfig(deployment)
    \/ LoadThenSave
    \/ \E data \in Updates : UpdateDeploymentConfig(data)
    \/ \E contract_folder \in ContractFolders, contract_object \in ContractObjects,
          ctor_args \in CtorArgs, as_blueprint \in BOOLEAN :
            UpdateContractDeployment(contract_folder, contract_object, ctor_args, as_blueprint)

ManifestSpec == ManifestInit /\ [][ManifestNext]_vars


\* ------------------------------------------------------------- reading documents

\* the key paths of a dict
RECURSIVE PathsOf(_)
PathsOf(v) ==
    IF ~IsMap(v) THEN {}
    ELSE UNION {{<<k>>} \cup {<<k>> \o p : p \in PathsOf(v.m[k])} : k \in DOMAIN v.m}

RECURSIVE HasPath(_, _)
HasPath(v, p) ==
    \/ p = <<>>
    \/ IsMap(v) /\ Head(p) \in DOMAIN v.m /\ HasPath(v.m[Head(p)], Tail(p))

RECURSIVE ValueAt(_, _)
ValueAt(v, p) == IF p = <<>> THEN v ELSE ValueAt(v.m[Head(p)], Tail(p))

\* the declared type a key sequence leads to from a type of the schema, "none"
\* when a key is not a field of the record it is looked up in
RECURSIVE TypeAt(_, _)
TypeAt(ty, keys) ==
    IF keys = <<>> THEN ty
    ELSE IF ty \in ModelClasses
    THEN IF Head(keys) \in FieldNames(ty)
         THEN TypeAt(FieldOf(ty, Head(keys)).ty, Tail(keys))
         ELSE "none"
    ELSE IF ty = "dict[str,Contract]" THEN TypeAt("Contract", Tail(keys))
    ELSE "none"

WithinSchema(data) == \A p \in PathsOf(data) : TypeAt("DeploymentConfig", p) # "none"

\* the value a lookup is to give on a loaded document: the value at the path
\* when every step exists and is not null, None from the first step that does not
RECURSIVE Expected(_, _)
Expected(v, keys) ==
    IF keys = <<>> THEN v
    ELSE IF ~IsMap(v) \/ Head(keys) \notin DOMAIN v.m \/ IsNull(v.m[Head(keys)]) THEN Null
    ELSE Expected(v.m[Head(keys)], Tail(keys))

\* the proper prefixes of p at which data holds a value that is not a mapping
ReplacedAbove(data, p) ==
    \E n \in 1..(Len(p) - 1) :
        HasPath(data, SubSeq(p, 1, n)) /\ ~IsMap(ValueAt(data, SubSeq(p, 1, n)))

UpdateReturned ==
    /\ op.name = "update_deployment_config"
    /\ op.pre.exists
    /\ op.out.kind = "return"

\* every key path of the update holds the update's value in the written document
UpdateApplied ==
    \A p \in PathsOf(op.arg) :
        /\ HasPath(safe_load(file.doc), p)
        /\ ~IsMap(ValueAt(op.arg, p)) =>
                ValueAt(safe_load(file.doc), p) = ValueAt(op.arg, p)

\* C1, as stated: after update_deployment_config(P) on a valid on-disk document
\* D, with P within the schema and a valid merge result, every key path of P
\* holds P's value and every key path of D that is absent from P holds D's
\* original value.
C1_AsStated ==
    (UpdateReturned /\ WithinSchema(op.arg)) =>
        LET D == safe_load(op.pre.doc) IN
        /\ UpdateApplied
        /\ \A p \in PathsOf(D) \ PathsOf(op.arg) :
              ~IsMap(ValueAt(D, p)) =>
                 /\ HasPath(safe_load(file.doc), p)
                 /\ ValueAt(safe_load(file.doc), p) = ValueAt(D, p)

\* C1, amended: every key path of P holds P's value, and every key path of D
\* as loaded into the schema that is absent from P and does not lie below a
\* path where P holds a value that is not a mapping holds D's loaded value.
C1_DeepMerge ==
    (UpdateReturned /\ WithinSchema(op.arg)) =>
        LET D == model_dump(get_deployment_config(op.pre)) IN
        /\ UpdateApplied
        /\ \A p \in PathsOf(D) \ PathsOf(op.arg) :
              (~IsMap(ValueAt(D, p)) /\ ~ReplacedAbove(op.arg, p)) =>
                 /\ HasPath(safe_load(file.doc), p)
                 /\ ValueAt(safe_load(file.doc), p) = ValueAt(D, p)

\* an update of the relayers written into a document that holds an AMM factory
C1_Witness ==
    /\ UpdateReturned
    /\ WithinSchema(op.arg)
    /\ file # op.pre
    /\ HasPath(op.arg, <<"contracts", "governance", "relayer", "polygon_cdk">>)
    /\ HasPath(safe_load(op.pre.doc), <<"contracts", "amm", "stableswap", "factory", "address">>)
    /\ HasPath(safe_load(file.doc), <<"contracts", "amm", "stableswap", "factory", "address">>)

\* the document update_deployment_config validates
Merged(f, data) ==
    IF f.exists
    THEN MapV(deep_update(model_dump(get_deployment_config(f)).m, data.m))
    ELSE data

\* C2: when the merged result of update_deployment_config fails validation,
\* the call raises ValidationError and the file is as it was before the call.
C2_InvalidUpdateLeavesFile ==
    (op.name = "update_deployment_config" /\ model_validate(Merged(op.pre, op.arg)) = Invalid) =>
        /\ op.out = Raise("ValidationError", "")
        /\ file = op.pre

\* a wrongly typed chain id refused on an existing document
C2_Witness ==
    /\ op.name = "update_deployment_config"
    /\ op.pre.exists
    /\ op.arg = At2("config", "chain_id", StrV("ten"))
    /\ op.out.kind = "raise"
    /\ file = op.pre

\* the document a lookup reads: None when the file is absent
Loaded(f) == IF f.exists THEN model_dump(get_deployment_config(f)) ELSE Null

\* C3, as stated: for every manifest state and every key sequence,
\* get_contract_deployment returns the value at the path, or None from the
\* first step that is missing or null, and never raises.
C3_AsStated ==
    op.name = "get_contract_deployment" =>
        /\ op.out.kind = "return"
        /\ model_dump(op.out.v) = Expected(Loaded(op.pre), op.arg)

\* C3, amended: the same for every key sequence in which each key looked up in
\* a structured record is a declared field of that record (any key may be
\* looked up in a dictionary-typed field).
C3_LookupNeverRaises ==
    (op.name = "get_contract_deployment" /\ TypeAt("DeploymentConfig", op.arg) # "none") =>
        /\ op.out.kind = "return"
        /\ model_dump(op.out.v) = Expected(Loaded(op.pre), op.arg)

\* a relayer that is not deployed looked up in a document that holds another one
C3_Witness ==
    /\ op.name = "get_contract_deployment"
    /\ op.arg = <<"contracts", "governance", "relayer", "polygon_cdk", "address">>
    /\ HasPath(Loaded(op.pre), <<"contracts", "governance", "relayer", "op_stack">>)
    /\ op.out = Return(Null)

\* C4: after save_deployment_config(D), get_deployment_config() gives D; after
\* loading and saving with no change, the document loads to what it did before.
C4_RoundTrip ==
    /\ op.name = "save_deployment_config" => get_deployment_config(file) = op.arg
    /\ op.name = "load_then_save" =>
          get_deployment_config(file) = get_deployment_config(op.pre)

\* a saved document with a currency symbol and addresses that YAML must quote
C4_Witness ==
    /\ op.name = "save_deployment_config"
    /\ op.arg.f["config"].f["native_currency_symbol"] = StrV("ON")
    /\ file.doc.m["config"].m["native_currency_symbol"].style = "quoted"
    /\ file.doc.m["config"].m["wrapped_native_token"].style = "quoted"

ChainIdOnly == At2("config", "chain_id", IntV(10))

\* C5, as stated: with the manifest file absent, get_deployment_config()
\* returns None, and update_deployment_config({"config": {"chain_id": 10}})
\* succeeds and creates a document with only config.chain_id set.
C5_AsStated ==
    /\ (op.name = "get_deployment_config" /\ ~op.pre.exists) => op.out = Return(Null)
    /\ (op.name = "update_deployment_config" /\ ~op.pre.exists /\ op.arg = ChainIdOnly) =>
          /\ op.out.kind = "return"
          /\ file.exists
          /\ safe_load(file.doc) = ChainIdOnly

\* C5, amended: with the manifest file absent, get_deployment_config() returns
\* None; update_deployment_config({"config": {"chain_id": 10}}) raises
\* ValidationError (the other required chain parameters are missing) and the
\* file stays absent; an update that validates creates a document holding
\* exactly the update, so contracts is absent when the update has none.
C5_CreateFromAbsent ==
    /\ (op.name = "get_deployment_config" /\ ~op.pre.exists) => op.out = Return(Null)
    /\ (op.name = "update_deployment_config" /\ ~op.pre.exists /\ op.arg = ChainIdOnly) =>
          /\ op.out = Raise("ValidationError", "")
          /\ file = Absent
    /\ (op.name = "update_deployment_config" /\ ~op.pre.exists /\ op.out.kind = "return") =>
          /\ file.exists
          /\ safe_load(file.doc) = op.arg

\* the chain-id-only update refused on an absent file
C5_Witness ==
    /\ op.name = "update_deployment_config"
    /\ ~op.pre.exists
    /\ op.arg = ChainIdOnly
    /\ op.out.kind = "raise"

LacksPragma(source_code) == Matches(PragmaPattern, "", source_code) = {}
LacksVersion(source_code) == Matches(VersionPatternPre, VersionPatternPost, source_code) = {}

ConfigurationErrors == {
    Raise("ValueError", "Compiler Version is set incorrectly"),
    Raise("ValueError", "Contract version is set incorrectly")}

\* C6: for every manifest state, update_contract_deployment on a contract whose
\* source lacks the version pragma, or on a blueprint whose source lacks the
\* version constant, raises a configuration error and leaves the file as it
\* was (the folder is below "contracts" and the constructor arguments encode).
C6_AsStated ==
    (/\ op.name = "update_contract_deployment"
     /\ InParts(op.arg.contract_folder, "contracts")
     /\ (op.arg.ctor_args = <<>> \/ op.arg.contract_object.abi_has_constructor)
     /\ \/ LacksPragma(op.arg.contract_object.source_code)
        \/ op.arg.as_blueprint /\ LacksVersion(op.arg.contract_object.source_code)) =>
        /\ op.out \in ConfigurationErrors
        /\ file = op.pre


\* ------------------------------------------------------------- two deployment runs on one manifest file

UpdateCall(data) == [fn |-> "update_deployment_config", data |-> data]
RecordCall(contract_folder, contract_object, ctor_args, as_blueprint) ==
    [fn |-> "update_contract_deployment", contract_folder |-> contract_folder,
     contract_object |-> contract_object, ctor_args |-> ctor_args,
     as_blueprint |-> as_blueprint]

\* the calls the two runs make
RunCalls ==
    {UpdateCall(At3("config", "dao", "vault", StrV(a))) : a \in Addresses}
    \cup {UpdateCall(At4("contracts", "governance", "relayer", "polygon_cdk",
                         ContractRecord(Address(1), "normal"))),
          UpdateCall(At2("config", "chain_id", StrV("ten"))),
          RecordCall(<<"/", "curve-core", "contracts", "amm", "stableswap", "factory">>,
                     ContractObject(Address(MaxAddr), SourceOk, TRUE), <<>>, TRUE),
          RecordCall(<<"/", "curve-core", "contracts", "helpers", "router">>,
                     ContractObject(Address(1), SourceOk, TRUE), <<7>>, FALSE)}

\* a call from its load on: lines 213-222 and 249-310
CallLoaded(deployment_config, f, call) ==
    IF call.fn = "update_deployment_config"
    THEN update_deployment_config_loaded(deployment_config, f, call.data)
    ELSE update_contract_deployment_loaded(deployment_config, f, call.contract_folder,
                                           call.contract_object, call.ctor_args,
                                           call.as_blueprint, 1700000001)

Runs == {1, 2}

ConcurrentInit ==
    /\ file \in InitFiles
    /\ \E c1 \in RunCalls : \E c2 \in RunCalls \ {c1} :
          run = [call |-> <<c1, c2>>,
                 pc |-> <<"start", "start">>,
                 loaded |-> <<Null, Null>>,
                 seen |-> <<Absent, Absent>>,
                 out |-> <<Null, Null>>,
                 stale |-> <<FALSE, FALSE>>,
                 writes |-> <<>>]
    /\ op = Idle
    /\ nops = 0
    /\ xgov = Idle
    /\ pool = Idle

\* self.get_deployment_config() at the head of either update
Load(i) ==
    /\ run.pc[i] = "start"
    /\ LET got == get_deployment_config(file) IN
       run' = [run EXCEPT !.pc[i] = IF got = Invalid THEN "done" ELSE "loaded",
                          !.loaded[i] = got,
                          !.seen[i] = file,
                          !.out[i] = IF got = Invalid THEN Raise("ValidationError", "")
                                     ELSE Null]
    /\ UNCHANGED <<file, op, nops, xgov, pool>>

\* the rest of the update: merge into what was loaded, validate, write
Write(i) ==
    /\ run.pc[i] = "loaded"
    /\ LET r == CallLoaded(run.loaded[i], file, run.call[i]) IN
       /\ file' = r.file
       /\ run' = [run EXCEPT !.pc[i] = "done",
                             !.out[i] = r.out,
                             !.stale[i] = (file # run.seen[i]),
                             !.writes = IF r.out.kind = "return" THEN Append(@, i) ELSE @]
    /\ UNCHANGED <<op, nops, xgov, pool>>

ConcurrentNext == \E i \in Runs : Load(i) \/ Write(i)

ConcurrentSpec == ConcurrentInit /\ [][ConcurrentNext]_vars

\* the key paths a call writes a value at
Written(call) ==
    IF call.fn = "update_deployment_config"
    THEN {p \in PathsOf(call.data) : ~IsMap(ValueAt(call.data, p))}
    ELSE {from_part(call.contract_folder, "contracts") \o <<n>> : n \in FieldNames("Contract")}

IsPrefix(p, q) == Len(p) <= Len(q) /\ SubSeq(q, 1, Len(p)) = p

DifferentKeys(c1, c2) ==
    \A p \in Written(c1), q \in Written(c2) : ~IsPrefix(p, q) /\ ~IsPrefix(q, p)

\* whether a loaded document holds what the call writes
Contains(doc, call) ==
    IF call.fn = "update_deployment_config"
    THEN \A p \in Written(call) : HasPath(doc, p) /\ ValueAt(doc, p) = ValueAt(call.data, p)
    ELSE LET keys == from_part(call.contract_folder, "contracts") IN
         /\ HasPath(doc, keys \o <<"address">>)
         /\ ValueAt(doc, keys \o <<"address">>) = StrV(strip(call.contract_object.address))
         /\ ValueAt(doc, keys \o <<"deployment_timestamp">>) = IntV(1700000001)

BothReturned ==
    /\ run.pc = <<"done", "done">>
    /\ Len(run.writes) = 2

\* C9: two runs update different keys of one manifest file; when both return
\* without error and the run that wrote last had loaded the document before
\* the other wrote it, the final document holds the last writer's update and
\* not the other run's.
C9_StaleWriteLosesUpdate ==
    BothReturned =>
        LET last == run.writes[2]
            first == run.writes[1]
        IN  (/\ run.stale[last]
             /\ DifferentKeys(run.call[1], run.call[2])
             /\ ~Contains(Loaded(run.seen[last]), run.call[first])) =>
                /\ Contains(Loaded(file), run.call[last])
                /\ ~Contains(Loaded(file), run.call[first])

\* both runs returned, and the vault address one of them wrote is gone
C9_Witness ==
    /\ BothReturned
    /\ run.stale[run.writes[2]]
    /\ DifferentKeys(run.call[1], run.call[2])
    /\ run.call[run.writes[1]].fn = "update_deployment_config"
    /\ run.call[run.writes[2]].fn = "update_contract_deployment"
    /\ Contains(Loaded(file), run.call[run.writes[2]])
    /\ ~Contains(Loaded(file), run.call[run.writes[1]])


\* ------------------------------------------------------------- deploy_xgov

\* scripts.deploy.constants.BROADCASTERS
BROADCASTERS(rollup_type) == "broadcaster " \o rollup_type

\* a call of deploy_contract, as deploy_xgov makes it
DeployCall(folder, args, as_blueprint) ==
    [folder |-> folder, args |-> args, as_blueprint |-> as_blueprint]

\* the match statement: the relayer's chain-specific arguments, or no case
r_args(rollup_type) ==
    CASE rollup_type = "op_stack" -> <<"0x4200000000000000000000000000000000000007">>
      [] rollup_type = "polygon_cdk" -> <<"0x2a3DD3EB832aF982ec71669E178424b10Dca2EDe", "0">>
      [] rollup_type = "arb_orbit" -> <<"0x0000000000000000000000000000000000000064">>
      [] OTHER -> <<>>

Recognized == {"op_stack", "polygon_cdk", "arb_orbit"}

XgovInit ==
    /\ \E rollup_type \in RollupType :
          xgov = [pc |-> "agent", rollup_type |-> rollup_type, calls |-> <<>>,
                  agent_blueprint |-> Null, relayer |-> Null, dao |-> Null, out |-> Pending]
    /\ file = Absent
    /\ op = Idle
    /\ nops = 0
    /\ run = Idle
    /\ pool = Idle

\* line 12: deploy the agent blueprint; the framework returns a handle or raises
DeployAgentBlueprint ==
    /\ xgov.pc = "agent"
    /\ \/ \E address \in Addresses :
             xgov' = [xgov EXCEPT
                        !.calls = Append(@, DeployCall(<<"contracts", "governance", "agent">>,
                                                       <<>>, TRUE)),
                        !.agent_blueprint = StrV(address),
                        !.pc = "match"]
       \/ xgov' = [xgov EXCEPT
                        !.calls = Append(@, DeployCall(<<"contracts", "governance", "agent">>,
                                                       <<>>, TRUE)),
                        !.out = Raise("Exception", "deploy_contract"),
                        !.pc = "done"]
    /\ UNCHANGED <<file, op, nops, run, pool>>

\* lines 15-28
MatchRollupType ==
    /\ xgov.pc = "match"
    /\ xgov' = IF xgov.rollup_type \in Recognized
               THEN [xgov EXCEPT !.pc = "relayer"]
               ELSE [xgov EXCEPT !.pc = "done",
                                 !.out = Raise("NotImplementedError",
                                               xgov.rollup_type \o " currently not supported")]
    /\ UNCHANGED <<file, op, nops, run, pool>>

\* lines 30-36: deploy the relayer, which creates the three agents
DeployRelayer ==
    /\ xgov.pc = "relayer"
    /\ \/ \E address \in Addresses, ownership \in Addresses, parameter \in Addresses,
             emergency \in Addresses :
             xgov' = [xgov EXCEPT
                        !.calls = Append(@, DeployCall(
                            <<"contracts", "governance", "relayer", xgov.rollup_type>>,
                            <<BROADCASTERS(xgov.rollup_type), xgov.agent_blueprint.s>>
                                \o r_args(xgov.rollup_type),
                            FALSE)),
                        !.relayer = [address |-> address, OWNERSHIP_AGENT |-> ownership,
                                     PARAMETER_AGENT |-> parameter,
                                     EMERGENCY_AGENT |-> emergency],
                        !.pc = "config"]
       \/ xgov' = [xgov EXCEPT
                        !.calls = Append(@, DeployCall(
                            <<"contracts", "governance", "relayer", xgov.rollup_type>>,
                            <<BROADCASTERS(xgov.rollup_type), xgov.agent_blueprint.s>>
                                \o r_args(xgov.rollup_type),
                            FALSE)),
                        !.out = Raise("Exception", "deploy_contract"),
                        !.pc = "done"]
    /\ UNCHANGED <<file, op, nops, run, pool>>

\* lines 37-48: hand the agents to update_deployment_chain_config and return them
UpdateChainConfig ==
    /\ xgov.pc = "config"
    /\ xgov' = [xgov EXCEPT
                  !.dao = At1("dao", MapV(
                            ("emergency_admin" :> StrV(xgov.relayer.EMERGENCY_AGENT))
                            @@ ("ownership_admin" :> StrV(xgov.relayer.OWNERSHIP_AGENT))
                            @@ ("parameter_admin" :> StrV(xgov.relayer.PARAMETER_AGENT)))),
                  !.out = Return(<<xgov.relayer.OWNERSHIP_AGENT, xgov.relayer.PARAMETER_AGENT,
                                   xgov.relayer.EMERGENCY_AGENT>>),
                  !.pc = "done"]
    /\ UNCHANGED <<file, op, nops, run, pool>>

XgovNext == DeployAgentBlueprint \/ MatchRollupType \/ DeployRelayer \/ UpdateChainConfig

XgovSpec == XgovInit /\ [][XgovNext]_vars

\* C7: when the rollup kind is not op_stack, polygon_cdk or arb_orbit,
\* deploy_xgov raises the not-supported error before any deploy_contract call.
C7_AsStated ==
    (xgov.pc = "done" /\ xgov.out.kind = "raise" /\ xgov.out.exc = "NotImplementedError") =>
        xgov.calls = <<>>


\* ------------------------------------------------------------- get_pool_info

\* a Decimal: coeff * 10^exp
Decimal(coeff, exp) == [coeff |-> coeff, exp |-> exp]

\* format_amount: Decimal(amount) / Decimal(10 ** decimals)
format_amount(amount, decimals) == Decimal(amount, 0 - decimals)

\* a + float(d) for amounts of 18 decimals (rounding of the float left out)
AddFloat(a, d) == Decimal(a.coeff + d.coeff, d.exp)

\* the calls the loop body makes on the chain for one pool, in order
FetchCalls == <<
    "load_partial(implementation).at(pool_address)",
    "pool.coins(0)", "pool.coins(1)",
    "load_partial(ERC20mock).at(coin0_address)",
    "load_partial(ERC20mock).at(coin1_address)",
    "pool.get_virtual_price()",
    "pool.name()", "pool.A()", "pool.symbol()", "pool.totalSupply()",
    "coin0.decimals()", "coin0.symbol()", "pool.price_oracle(0) for coin0",
    "coin1.decimals()", "coin1.symbol()", "pool.price_oracle(0) for coin1",
    "pool.coins(0) in pool_data", "pool.coins(1) in pool_data">>

IndexOf(call) == CHOOSE i \in 1..Len(FetchCalls) : FetchCalls[i] = call

\* whether the call is reached and answered when failed_call ("none" or a call) raises
Fetched(call, failed_call) ==
    failed_call = "none" \/ IndexOf(call) < IndexOf(failed_call)

\* one turn of the loop with the exception left to propagate
loop_body_without_try(st, pool_address, failed_call, virtual_price) ==
    LET pool_tvl == format_amount(virtual_price, 18)
        summed == IF Fetched("pool.get_virtual_price()", failed_call)
                  THEN AddFloat(st.total_tvl, pool_tvl) ELSE st.total_tvl
        pool_data == [address |-> pool_address, id |-> "pool " \o pool_address,
                      usdTotal |-> pool_tvl, implementation |-> "plainstableng"]
    IN  IF failed_call = "none"
        THEN [st EXCEPT !.i = @ + 1, !.total_tvl = summed,
                        !.pools_data = Append(@, pool_data),
                        !.succeeded = Append(@, TRUE), !.failed_call = failed_call]
        ELSE [st EXCEPT !.total_tvl = summed, !.failed_call = failed_call,
                        !.pc = "done", !.response = Raise("Exception", failed_call)]

\* lines 25-104, one turn of the loop: failed_call is the call that raises in
\* this turn ("none" when none does), virtual_price what get_virtual_price returns
loop_body(st, pool_address, failed_call, virtual_price) ==
    LET pool_tvl == format_amount(virtual_price, 18)
        summed == IF Fetched("pool.get_virtual_price()", failed_call)
                  THEN AddFloat(st.total_tvl, pool_tvl) ELSE st.total_tvl
        pool_data == [address |-> pool_address, id |-> "pool " \o pool_address,
                      usdTotal |-> pool_tvl, implementation |-> "plainstableng"]
    IN  IF failed_call = "none"
        THEN [st EXCEPT !.i = @ + 1, !.total_tvl = summed,
                        !.pools_data = Append(@, pool_data),
                        !.succeeded = Append(@, TRUE), !.failed_call = failed_call]
        ELSE [st EXCEPT !.i = @ + 1, !.total_tvl = summed,
                        !.succeeded = Append(@, FALSE), !.failed_call = failed_call]

AddressLists == UNION {[1..n -> Addresses] : n \in 0..MaxPools}

PoolInit ==
    /\ \E pool_addresses \in AddressLists :
          pool = [pc |-> "loop", pool_addresses |-> pool_addresses, i |-> 1,
                  pools_data |-> <<>>, total_tvl |-> Decimal(0, -18),
                  succeeded |-> <<>>, failed_call |-> "none", response |-> Pending]
    /\ file = Absent
    /\ op = Idle
    /\ nops = 0
    /\ run = Idle
    /\ xgov = Idle

\* the price is read only when get_virtual_price is reached and answers
ProcessPool ==
    /\ pool.pc = "loop"
    /\ pool.i <= Len(pool.pool_addresses)
    /\ \E failed_call \in {"none"} \cup {FetchCalls[k] : k \in 1..Len(FetchCalls)} :
       \E virtual_price \in IF Fetched("pool.get_virtual_price()", failed_call)
                            THEN 1..MaxPrice ELSE {0} :
          pool' = loop_body(pool, pool.pool_addresses[pool.i], failed_call, virtual_price)
    /\ UNCHANGED <<file, op, nops, run, xgov>>

\* lines 106-113
ReturnResponse ==
    /\ pool.pc = "loop"
    /\ pool.i > Len(pool.pool_addresses)
    /\ pool' = [pool EXCEPT !.pc = "done",
                            !.response = Return([poolData |-> pool.pools_data,
                                                 tvlAll |-> pool.total_tvl,
                                                 tvl |-> pool.total_tvl])]
    /\ UNCHANGED <<file, op, nops, run, xgov>>

PoolNext == ProcessPool \/ ReturnResponse

PoolSpec == PoolInit /\ [][PoolNext]_vars

\* the elements of s whose flag is set, in order
RECURSIVE Select(_, _)
Select(s, flags) ==
    IF s = <<>> \/ flags = <<>> THEN <<>>
    ELSE IF Head(flags) THEN <<Head(s)>> \o Select(Tail(s), Tail(flags))
    ELSE Select(Tail(s), Tail(flags))

RECURSIVE SumUsdTotal(_)
SumUsdTotal(entries) ==
    IF entries = <<>> THEN 0 ELSE Head(entries).usdTotal.coeff + SumUsdTotal(Tail(entries))

\* C8: get_pool_info returns a report whatever fetches fail; poolData holds one
\* entry for each pool whose fetches all succeeded, in input order, none for a
\* pool with a failed fetch, and every pool of the list is processed.
C8_FailedPoolsAreSkipped ==
    pool.pc = "done" =>
        /\ pool.response.kind = "return"
        /\ Len(pool.succeeded) = Len(pool.pool_addresses)
        /\ [k \in 1..Len(pool.response.v.poolData) |-> pool.response.v.poolData[k].address]
              = Select(pool.pool_addresses, pool.succeeded)

\* a report of two pools of which the first failed and the second did not
C8_Witness ==
    /\ pool.pc = "done"
    /\ pool.succeeded = <<FALSE, TRUE>>
    /\ Len(pool.response.v.poolData) = 1
    /\ pool.response.v.poolData[1].address = pool.pool_addresses[2]

\* C10: in the report, tvl and tvlAll equal the sum of usdTotal over the pools
\* in poolData; a skipped pool contributes nothing.
C10_AsStated ==
    (pool.pc = "done" /\ pool.response.kind = "return") =>
        /\ pool.response.v.tvl = Decimal(SumUsdTotal(pool.response.v.poolData), -18)
        /\ pool.response.v.tvlAll = pool.response.v.tvl

====
